---- MODULE Spec2Model ----
(***************************************************************************)
(* Model of pkg/dropdown of qgo: the interactive Select and MultiSelect    *)
(* loops over the keyboard input source (github.com/eiannone/keyboard).    *)
(* Indices are 0-based as in the Go source: an option list of length n is  *)
(* a function on 0..n-1.                                                   *)
(***************************************************************************)
EXTENDS Integers, Sequences, FiniteSets, TLC

VARIABLES
    pc,             \* position of the running invocation
    fn,             \* "Select", "MultiSelect" or "none"
    options,        \* the options argument: 0..n-1 -> [Value, Label]
    selectedIndex,  \* local selectedIndex (the cursor)
    selected,       \* MultiSelect's local selected: 0..n-1 -> BOOLEAN
    kbOpen,         \* the keyboard package's process-wide raw mode is held
    ret,            \* the return values of the invocation
    frame,          \* the rows last printed after the screen clear
    trace,          \* history: every GetKey result with the state it met
    opens,          \* history: keyboard.Open() calls of this invocation
    opened,         \* history: a keyboard.Open() of this invocation succeeded
    closes,         \* history: keyboard.Close() calls of this invocation
    frames,         \* history: frames printed by this invocation
    ppc,            \* position of the caller of the dropdown
    cfg,            \* the caller's config.Config value
    disk,           \* the configuration file
    exit,           \* how the process ended, if it has
    prev            \* history: how the previous invocation ended

vars == <<pc, fn, options, selectedIndex, selected, kbOpen, ret, frame,
          trace, opens, opened, closes, frames, ppc, cfg, disk, exit, prev>>

callerVars == <<ppc, cfg, disk, exit, prev>>

\* ---------------------------------------------------------------- bounds
MaxOpts == 3
MaxKeys == 5
\* keys per invocation when invocations follow one another
MaxSeqKeys == 3
\* keys per invocation when the program is the caller
MaxProgKeys == 3
\* connections a configuration holds
MaxConns == 2
\* keys per invocation when progress is checked
MaxLiveKeys == 4

\* the key reads explored in one invocation
KeyLimit ==
    IF ppc = "harness" THEN MaxKeys
    ELSE IF ppc = "sequence" THEN MaxSeqKeys
    ELSE IF ppc = "live" THEN MaxLiveKeys
    ELSE MaxProgKeys

\* ------------------------------------------------------------ option lists
Digits == <<"1", "2", "3", "4", "5">>
Words  == <<"One", "Two", "Three", "Four", "Five">>

Option(v, l) == [Value |-> v, Label |-> l]

len(f) == Cardinality(DOMAIN f)

\* the list of the scenarios: {"1","One"}, {"2","Two"}, ...
Ascending(n) == [i \in 0..(n - 1) |-> Option(Digits[i + 1], Words[i + 1])]
\* values that do not grow with the position
Descending(n) == [i \in 0..(n - 1) |-> Option(Digits[n - i], Words[i + 1])]

OptionLists ==
    {Ascending(n) : n \in 0..MaxOpts} \cup {Descending(n) : n \in 2..MaxOpts}

\* ------------------------------------------------------------- Go values
NoErr        == "nil"
ErrNoOptions == "no options provided"
ErrCancelled == "selection cancelled"
ErrOpen      == "keyboard.Open error"
ErrRead      == "keyboard.GetKey error"

\* (string, error) of Select; ([]string, error) of MultiSelect, where a nil
\* slice and the empty slice []string{} are kept apart
StrRet(v, e)  == [str |-> v, isNil |-> TRUE, list |-> <<>>, err |-> e]
ListRet(l, e) == [str |-> "", isNil |-> FALSE, list |-> l, err |-> e]
NilRet(e)     == [str |-> "", isNil |-> TRUE, list |-> <<>>, err |-> e]
NoRet         == [str |-> "", isNil |-> TRUE, list |-> <<>>, err |-> "none"]

\* Go's % truncates towards zero
GoRem(a, b) == IF a >= 0 THEN a % b ELSE 0 - ((0 - a) % b)

\* --------------------------------------------------- keyboard.GetKey()
\* one event per (char, key, err) triple the library can deliver
Events == {"ArrowUp", "ArrowDown", "Enter", "Esc", "Space", "Tab",
           "q", "Q", "x", "ReadErr"}

KeyOf(e)  == IF e \in {"ArrowUp", "ArrowDown", "Enter", "Esc", "Space", "Tab"}
             THEN e ELSE "0"
CharOf(e) == IF e \in {"q", "Q", "x"} THEN e ELSE "0"
ErrOf(e)  == IF e = "ReadErr" THEN ErrRead ELSE NoErr

Rec(e) == [ev |-> e, cursor |-> selectedIndex, selected |-> selected]

\* ------------------------------------------------------------ rendering
ToUpper(s) == IF s = "[x]" THEN "[X]" ELSE s

SelectFrame(opts, idx) ==
    [i \in DOMAIN opts |->
        [prefix |-> IF i = idx THEN "> " ELSE "  ", label |-> opts[i].Label]]

MultiSelectFrame(opts, idx, sel) ==
    [i \in DOMAIN opts |->
        LET p == IF sel[i] THEN "[x]" ELSE "[ ]"
        IN  [prefix |-> IF i = idx THEN ToUpper(p) ELSE p,
             label  |-> opts[i].Label]]

\* ---------------------------------------------------------- config
\* config.Connection, by the two fields the program looks at
Connection(name, type) == [Name |-> name, Type |-> type]
NoConnection == Connection("", "")

ConnPool == {Connection("a", "mysql"), Connection("a", "postgresql"),
             Connection("b", "mysql")}

\* config.Config
Config(conns, cur) == [Connections |-> conns, CurrentConnection |-> cur]
EmptyConfig == Config(<<>>, NoConnection)

\* the configuration file: missing, holding a Config, or cut short by a
\* failed write
NoFile == [state |-> "missing", cfg |-> EmptyConfig]
File(c) == [state |-> "ok", cfg |-> c]
BrokenFile == [state |-> "corrupt", cfg |-> EmptyConfig]

\* errors as the chain fmt.Errorf("...: %w") builds, innermost last
Wrap(msg, err) == <<msg>> \o err

Running == [code |-> 0 - 1, message |-> "", err |-> <<>>]
Exited(code) == [code |-> code, message |-> "", err |-> <<>>]
\* handleError: print and os.Exit(1)
handleError(message, err) == [code |-> 1, message |-> message, err |-> err]

NoPrev == [any |-> FALSE, moved |-> FALSE, chosen |-> FALSE, ok |-> FALSE]

\* ----------------------------------------------------------------- Init
\* no invocation is running
Fresh ==
    /\ pc = "idle"
    /\ fn = "none"
    /\ options = Ascending(0)
    /\ selectedIndex = 0
    /\ selected = Ascending(0)
    /\ kbOpen = FALSE
    /\ ret = NoRet
    /\ frame = Ascending(0)
    /\ trace = <<>>
    /\ opens = 0
    /\ opened = FALSE
    /\ closes = 0
    /\ frames = 0

\* the dropdown functions called one at a time with any option list
Init ==
    /\ Fresh
    /\ ppc = "harness"
    /\ cfg = EmptyConfig
    /\ disk = NoFile
    /\ exit = Running
    /\ prev = NoPrev

\* ------------------------------------------------------------- Select
\* variant: the cursor is kept from one invocation to the next
SelectEntryResume(opts) ==
    /\ fn' = "Select"
    /\ options' = opts
    /\ IF len(opts) = 0
       THEN /\ ret' = StrRet("", ErrNoOptions)
            /\ pc' = "returned"
       ELSE /\ ret' = ret
            /\ pc' = "open"
    /\ selectedIndex' = IF selectedIndex < len(opts) THEN selectedIndex ELSE 0
    /\ UNCHANGED <<selected, kbOpen, frame, trace, opens, opened, closes,
                   frames>>

\* the function entry: the length check and selectedIndex := 0
SelectEntry(opts) ==
    /\ fn' = "Select"
    /\ options' = opts
    /\ IF len(opts) = 0
       THEN /\ ret' = StrRet("", ErrNoOptions)
            /\ pc' = "returned"
       ELSE /\ ret' = ret
            /\ pc' = "open"
    /\ selectedIndex' = 0
    /\ UNCHANGED <<selected, kbOpen, frame, trace, opens, opened, closes,
                   frames>>

\* variant: the input source is opened before the length check
SelectCallOpenFirst ==
    /\ pc = "idle"
    /\ \E opts \in OptionLists :
        /\ fn' = "Select"
        /\ options' = opts
        /\ IF len(opts) = 0
           THEN /\ ret' = StrRet("", ErrNoOptions)
                /\ pc' = "deferred"
                /\ opens' = opens + 1
                /\ opened' = TRUE
                /\ kbOpen' = TRUE
           ELSE /\ ret' = ret
                /\ pc' = "open"
                /\ UNCHANGED <<opens, opened, kbOpen>>
    /\ selectedIndex' = 0
    /\ UNCHANGED <<selected, frame, trace, closes, frames>>
    /\ UNCHANGED callerVars

\* Select called with any option list
SelectCall ==
    /\ pc = "idle"
    /\ \E opts \in OptionLists : SelectEntry(opts)
    /\ UNCHANGED callerVars

\* variant: without a terminal the first option is returned as a default
SelectOpenDefault ==
    /\ pc = "open" /\ fn = "Select"
    /\ opens' = opens + 1
    /\ \E ok \in BOOLEAN :
        IF ok
        THEN /\ kbOpen' = TRUE
             /\ opened' = TRUE
             /\ pc' = "draw"
             /\ ret' = ret
        ELSE /\ kbOpen' = kbOpen
             /\ opened' = opened
             /\ pc' = "returned"
             /\ ret' = StrRet(options[0].Value, NoErr)
    /\ UNCHANGED <<fn, options, selectedIndex, selected, frame, trace,
                   closes, frames>>
    /\ UNCHANGED callerVars

\* variant: the Close is deferred before the result of Open is looked at
SelectOpenDeferFirst ==
    /\ pc = "open" /\ fn = "Select"
    /\ opens' = opens + 1
    /\ \E ok \in BOOLEAN :
        IF ok
        THEN /\ kbOpen' = TRUE
             /\ opened' = TRUE
             /\ pc' = "draw"
             /\ ret' = ret
        ELSE /\ kbOpen' = kbOpen
             /\ opened' = opened
             /\ pc' = "deferred"
             /\ ret' = StrRet("", ErrOpen)
    /\ UNCHANGED <<fn, options, selectedIndex, selected, frame, trace,
                   closes, frames>>
    /\ UNCHANGED callerVars

\* err := keyboard.Open(); defer keyboard.Close()
SelectOpen ==
    /\ pc = "open" /\ fn = "Select"
    /\ opens' = opens + 1
    /\ \E ok \in BOOLEAN :
        IF ok
        THEN /\ kbOpen' = TRUE
             /\ opened' = TRUE
             /\ pc' = "draw"
             /\ ret' = ret
        ELSE /\ kbOpen' = kbOpen
             /\ opened' = opened
             /\ pc' = "returned"
             /\ ret' = StrRet("", ErrOpen)
    /\ UNCHANGED <<fn, options, selectedIndex, selected, frame, trace,
                   closes, frames>>
    /\ UNCHANGED callerVars

\* clear screen, prompt, one line per option
SelectDraw ==
    /\ pc = "draw" /\ fn = "Select"
    /\ frame' = SelectFrame(options, selectedIndex)
    /\ frames' = frames + 1
    /\ pc' = "read"
    /\ UNCHANGED <<fn, options, selectedIndex, selected, kbOpen, ret, trace,
                   opens, opened, closes>>
    /\ UNCHANGED callerVars

\* variant: the cursor stops at the first row
SelectUpClamped(idx, n) == IF idx = 0 THEN 0 ELSE idx - 1

\* case keyboard.KeyArrowUp
SelectUp(idx, n) == GoRem(idx - 1 + n, n)
\* case keyboard.KeyArrowDown
SelectDown(idx, n) == GoRem(idx + 1, n)

\* variant: the display label is returned in place of the value
SelectConfirmLabel(opts, idx) == StrRet(opts[idx].Label, NoErr)

\* case keyboard.KeyEnter
SelectConfirm(opts, idx) == StrRet(opts[idx].Value, NoErr)

\* variant: every character quits
SelectQuitAnyChar(char) == char # "0"

\* if char == 'q' || char == 'Q'
SelectQuit(char) == char = "q" \/ char = "Q"

\* char, key, err := keyboard.GetKey(), the switch and the quit test
SelectGetKey ==
    /\ pc = "read" /\ fn = "Select"
    /\ Len(trace) < KeyLimit
    /\ \E e \in Events :
        LET char == CharOf(e)
            key  == KeyOf(e)
            err  == ErrOf(e)
        IN  /\ trace' = Append(trace, Rec(e))
            /\ IF err # NoErr
               THEN /\ ret' = StrRet("", err)
                    /\ pc' = "deferred"
                    /\ selectedIndex' = selectedIndex
               ELSE IF key = "Enter"
               THEN /\ ret' = SelectConfirm(options, selectedIndex)
                    /\ pc' = "deferred"
                    /\ selectedIndex' = selectedIndex
               ELSE IF key = "Esc"
               THEN /\ ret' = StrRet("", ErrCancelled)
                    /\ pc' = "deferred"
                    /\ selectedIndex' = selectedIndex
               ELSE /\ selectedIndex' =
                        IF key = "ArrowUp"
                        THEN SelectUp(selectedIndex, len(options))
                        ELSE IF key = "ArrowDown"
                        THEN SelectDown(selectedIndex, len(options))
                        ELSE selectedIndex
                    /\ IF SelectQuit(char)
                       THEN /\ ret' = StrRet("", ErrCancelled)
                            /\ pc' = "deferred"
                       ELSE /\ ret' = ret
                            /\ pc' = "draw"
    /\ UNCHANGED <<fn, options, selected, kbOpen, frame, opens, opened, closes,
                   frames>>
    /\ UNCHANGED callerVars

\* variant: the list is printed once more on the way out
SelectDeferredRedraw ==
    /\ pc = "deferred" /\ fn = "Select"
    /\ kbOpen' = FALSE
    /\ closes' = closes + 1
    /\ frame' = SelectFrame(options, selectedIndex)
    /\ frames' = frames + 1
    /\ pc' = "returned"
    /\ UNCHANGED <<fn, options, selectedIndex, selected, ret, trace,
                   opens, opened>>
    /\ UNCHANGED callerVars

\* variant: the input source is released on the confirming return only
SelectDeferredOnSuccess ==
    /\ pc = "deferred" /\ fn = "Select"
    /\ kbOpen' = IF ret.err = NoErr THEN FALSE ELSE kbOpen
    /\ closes' = IF ret.err = NoErr THEN closes + 1 ELSE closes
    /\ pc' = "returned"
    /\ UNCHANGED <<fn, options, selectedIndex, selected, ret, frame, trace,
                   opens, opened, frames>>
    /\ UNCHANGED callerVars

\* the deferred keyboard.Close() of a return after a successful Open
SelectDeferred ==
    /\ pc = "deferred" /\ fn = "Select"
    /\ kbOpen' = FALSE
    /\ closes' = closes + 1
    /\ pc' = "returned"
    /\ UNCHANGED <<fn, options, selectedIndex, selected, ret, frame, trace,
                   opens, opened, frames>>
    /\ UNCHANGED callerVars

\* --------------------------------------------------------- MultiSelect
\* entry: the length check, selectedIndex := 0, selected := make([]bool, n)
MultiSelectCall ==
    /\ pc = "idle"
    /\ \E opts \in OptionLists :
        /\ fn' = "MultiSelect"
        /\ options' = opts
        /\ IF len(opts) = 0
           THEN /\ ret' = NilRet(ErrNoOptions)
                /\ pc' = "returned"
                /\ selected' = selected
           ELSE /\ ret' = ret
                /\ pc' = "open"
                /\ selected' = [i \in DOMAIN opts |-> FALSE]
    /\ selectedIndex' = 0
    /\ UNCHANGED <<kbOpen, frame, trace, opens, opened, closes, frames>>
    /\ UNCHANGED callerVars

\* variant: the error of keyboard.Open() is not looked at
MultiSelectOpenUnchecked ==
    /\ pc = "open" /\ fn = "MultiSelect"
    /\ opens' = opens + 1
    /\ \E ok \in BOOLEAN :
        /\ kbOpen' = ok
        /\ opened' = ok
        /\ pc' = "draw"
        /\ ret' = ret
    /\ UNCHANGED <<fn, options, selectedIndex, selected, frame, trace,
                   closes, frames>>
    /\ UNCHANGED callerVars

\* err := keyboard.Open(); defer keyboard.Close()
MultiSelectOpen ==
    /\ pc = "open" /\ fn = "MultiSelect"
    /\ opens' = opens + 1
    /\ \E ok \in BOOLEAN :
        IF ok
        THEN /\ kbOpen' = TRUE
             /\ opened' = TRUE
             /\ pc' = "draw"
             /\ ret' = ret
        ELSE /\ kbOpen' = kbOpen
             /\ opened' = opened
             /\ pc' = "returned"
             /\ ret' = NilRet(ErrOpen)
    /\ UNCHANGED <<fn, options, selectedIndex, selected, frame, trace,
                   closes, frames>>
    /\ UNCHANGED callerVars

\* clear screen, prompt, help line, one line per option
MultiSelectDraw ==
    /\ pc = "draw" /\ fn = "MultiSelect"
    /\ frame' = MultiSelectFrame(options, selectedIndex, selected)
    /\ frames' = frames + 1
    /\ pc' = "read"
    /\ UNCHANGED <<fn, options, selectedIndex, selected, kbOpen, ret, trace,
                   opens, opened, closes>>
    /\ UNCHANGED callerVars

\* case keyboard.KeyArrowUp
MultiSelectUp(idx, n) == GoRem(idx - 1 + n, n)

\* variant: the cursor runs past the last row
MultiSelectDownNoWrap(idx, n) == idx + 1

\* variant: the cursor stops at the last row
MultiSelectDownClamped(idx, n) == IF idx = n - 1 THEN idx ELSE idx + 1

\* case keyboard.KeyArrowDown
MultiSelectDown(idx, n) == GoRem(idx + 1, n)

\* variant: Space selects the row and deselects every other row
ToggleExclusive(sel, idx) ==
    [i \in DOMAIN sel |-> IF i = idx THEN ~sel[i] ELSE FALSE]

\* variant: Space selects and never deselects
ToggleOn(sel, idx) == [sel EXCEPT ![idx] = TRUE]

\* selected[selectedIndex] = !selected[selectedIndex]
Toggle(sel, idx) == [sel EXCEPT ![idx] = ~sel[idx]]

\* variant: each selected value is put in front of the result
RECURSIVE CollectPrepend(_, _, _, _)
CollectPrepend(opts, sel, i, result) ==
    IF i >= len(sel) THEN result
    ELSE CollectPrepend(opts, sel, i + 1,
                        IF sel[i] THEN <<opts[i].Value>> \o result ELSE result)

\* the range loop over selected appending options[i].Value, from index i on
RECURSIVE Collect(_, _, _, _)
Collect(opts, sel, i, result) ==
    IF i >= len(sel) THEN result
    ELSE Collect(opts, sel, i + 1,
                 IF sel[i] THEN Append(result, opts[i].Value) ELSE result)

\* variant: confirming with nothing selected is reported as a cancellation
MultiSelectConfirmNonEmpty(opts, sel) ==
    IF Collect(opts, sel, 0, <<>>) = <<>>
    THEN NilRet(ErrCancelled)
    ELSE ListRet(Collect(opts, sel, 0, <<>>), NoErr)

\* case keyboard.KeyEnter
MultiSelectConfirm(opts, sel) == ListRet(Collect(opts, sel, 0, <<>>), NoErr)

\* variant: the upper-case quit character is not recognised
MultiSelectQuitLower(char) == char = "q"

\* if char == 'q' || char == 'Q'
MultiSelectQuit(char) == char = "q" \/ char = "Q"

\* variant: a failed key read is skipped and the loop goes on
MultiSelectGetKeyRetry ==
    /\ pc = "read" /\ fn = "MultiSelect"
    /\ Len(trace) < KeyLimit
    /\ \E e \in Events :
        LET char == CharOf(e)
            key  == KeyOf(e)
            err  == ErrOf(e)
        IN  /\ trace' = Append(trace, Rec(e))
            /\ IF err # NoErr
               THEN /\ ret' = ret
                    /\ pc' = "draw"
                    /\ UNCHANGED <<selectedIndex, selected>>
               ELSE IF key = "Enter"
               THEN /\ ret' = MultiSelectConfirm(options, selected)
                    /\ pc' = "deferred"
                    /\ UNCHANGED <<selectedIndex, selected>>
               ELSE IF key = "Esc"
               THEN /\ ret' = NilRet(ErrCancelled)
                    /\ pc' = "deferred"
                    /\ UNCHANGED <<selectedIndex, selected>>
               ELSE /\ selectedIndex' =
                        IF key = "ArrowUp"
                        THEN MultiSelectUp(selectedIndex, len(options))
                        ELSE IF key = "ArrowDown"
                        THEN MultiSelectDown(selectedIndex, len(options))
                        ELSE selectedIndex
                    /\ selected' =
                        IF key = "Space"
                        THEN Toggle(selected, selectedIndex)
                        ELSE selected
                    /\ IF MultiSelectQuit(char)
                       THEN /\ ret' = NilRet(ErrCancelled)
                            /\ pc' = "deferred"
                       ELSE /\ ret' = ret
                            /\ pc' = "draw"
    /\ UNCHANGED <<fn, options, kbOpen, frame, opens, opened, closes, frames>>
    /\ UNCHANGED callerVars

\* char, key, err := keyboard.GetKey(), the switch and the quit test
MultiSelectGetKey ==
    /\ pc = "read" /\ fn = "MultiSelect"
    /\ Len(trace) < KeyLimit
    /\ \E e \in Events :
        LET char == CharOf(e)
            key  == KeyOf(e)
            err  == ErrOf(e)
        IN  /\ trace' = Append(trace, Rec(e))
            /\ IF err # NoErr
               THEN /\ ret' = NilRet(err)
                    /\ pc' = "deferred"
                    /\ UNCHANGED <<selectedIndex, selected>>
               ELSE IF key = "Enter"
               THEN /\ ret' = MultiSelectConfirm(options, selected)
                    /\ pc' = "deferred"
                    /\ UNCHANGED <<selectedIndex, selected>>
               ELSE IF key = "Esc"
               THEN /\ ret' = NilRet(ErrCancelled)
                    /\ pc' = "deferred"
                    /\ UNCHANGED <<selectedIndex, selected>>
               ELSE /\ selectedIndex' =
                        IF key = "ArrowUp"
                        THEN MultiSelectUp(selectedIndex, len(options))
                        ELSE IF key = "ArrowDown"
                        THEN MultiSelectDown(selectedIndex, len(options))
                        ELSE selectedIndex
                    /\ selected' =
                        IF key = "Space"
                        THEN Toggle(selected, selectedIndex)
                        ELSE selected
                    /\ IF MultiSelectQuit(char)
                       THEN /\ ret' = NilRet(ErrCancelled)
                            /\ pc' = "deferred"
                       ELSE /\ ret' = ret
                            /\ pc' = "draw"
    /\ UNCHANGED <<fn, options, kbOpen, frame, opens, opened, closes, frames>>
    /\ UNCHANGED callerVars

\* the deferred keyboard.Close() of a return after a successful Open
MultiSelectDeferred ==
    /\ pc = "deferred" /\ fn = "MultiSelect"
    /\ kbOpen' = FALSE
    /\ closes' = closes + 1
    /\ pc' = "returned"
    /\ UNCHANGED <<fn, options, selectedIndex, selected, ret, frame, trace,
                   opens, opened, frames>>
    /\ UNCHANGED callerVars

\* the locals and the result of a returned invocation are gone
Discard ==
    /\ pc' = "idle"
    /\ fn' = "none"
    /\ options' = Ascending(0)
    /\ selectedIndex' = 0
    /\ selected' = Ascending(0)
    /\ ret' = NoRet
    /\ frame' = Ascending(0)
    /\ trace' = <<>>
    /\ opens' = 0
    /\ opened' = FALSE
    /\ closes' = 0
    /\ frames' = 0
    /\ UNCHANGED kbOpen

\* the caller takes the result; the invocation's state is discarded
Return ==
    /\ pc = "returned"
    /\ Discard
    /\ UNCHANGED callerVars

\* as Return, noting how the invocation ended; the cursor it left is not
\* cleared, the next invocation has to set its own
ReturnNoting ==
    /\ pc = "returned"
    /\ pc' = "idle"
    /\ fn' = "none"
    /\ options' = Ascending(0)
    /\ selectedIndex' = selectedIndex
    /\ selected' = Ascending(0)
    /\ ret' = NoRet
    /\ frame' = Ascending(0)
    /\ trace' = <<>>
    /\ opens' = 0
    /\ opened' = FALSE
    /\ closes' = 0
    /\ frames' = 0
    /\ prev' = [any |-> TRUE,
                moved |-> selectedIndex # 0,
                chosen |-> \E i \in DOMAIN selected : selected[i],
                ok |-> ret.err = NoErr]
    /\ UNCHANGED <<kbOpen, ppc, cfg, disk, exit>>

Next ==
    \/ SelectCall
    \/ SelectOpen
    \/ SelectDraw
    \/ SelectGetKey
    \/ SelectDeferred
    \/ MultiSelectCall
    \/ MultiSelectOpen
    \/ MultiSelectDraw
    \/ MultiSelectGetKey
    \/ MultiSelectDeferred
    \/ Return

Spec == Init /\ [][Next]_vars

\* ------------------------------------------------------ the program
\* fmt.Sprintf("%d", i) and fmt.Sscan(s, &choice) on the numbers in use
Decimals == <<"0", "1", "2", "3", "4", "5", "6", "7", "8", "9">>
Itoa(i) == Decimals[i + 1]
\* choice keeps its value when s is not a number
Sscan(s, choice) ==
    IF \E i \in 0..9 : Itoa(i) = s
    THEN CHOOSE i \in 0..9 : Itoa(i) = s
    ELSE choice

\* fmt.Sprintf("%s (%s)", conn.Name, conn.Type)
ConnLabel(conn) == conn.Name \o " (" \o conn.Type \o ")"

\* variant: the two actions are listed only below a connection
createConnectionOptionsBelow(c) ==
    LET k == Len(c.Connections)
        optionsCount == IF k > 0 THEN k + 2 ELSE k
    IN  [i \in 0..(optionsCount - 1) |->
            IF i < k
            THEN Option(Itoa(i), ConnLabel(c.Connections[i + 1]))
            ELSE IF i = k
            THEN Option(Itoa(k), "Add new connection")
            ELSE Option(Itoa(k + 1), "Delete a connection")]

\* the menu: one row per connection, "Add new connection", and "Delete a
\* connection" when there is one
createConnectionOptions(c) ==
    LET k == Len(c.Connections)
        optionsCount == IF k > 0 THEN k + 2 ELSE k + 1
    IN  [i \in 0..(optionsCount - 1) |->
            IF i < k
            THEN Option(Itoa(i), ConnLabel(c.Connections[i + 1]))
            ELSE IF i = k
            THEN Option(Itoa(k), "Add new connection")
            ELSE Option(Itoa(k + 1), "Delete a connection")]

\* the options deleteConnection builds
deleteConnectionOptions(c) ==
    [i \in 0..(Len(c.Connections) - 1) |->
        Option(Itoa(i), ConnLabel(c.Connections[i + 1]))]

\* append(s[:choice], s[choice+1:]...)
RemoveAt(s, choice) ==
    [i \in 1..(Len(s) - 1) |-> IF i <= choice THEN s[i] ELSE s[i + 1]]

\* config.SaveConfig: written, os.Create failed, or Encode failed after the
\* file was truncated
SaveOutcomes == {"ok", "create failed", "encode failed"}
SaveConfig(c, outcome) ==
    IF outcome = "ok" THEN File(c)
    ELSE IF outcome = "create failed" THEN disk
    ELSE BrokenFile

\* initializeConfig: config.LoadConfig, then selectOrAddConnection
initializeConfig ==
    /\ ppc = "init"
    /\ \E readable \in BOOLEAN :
        IF disk.state = "missing"
        THEN /\ cfg' = EmptyConfig
             /\ ppc' = "menu"
             /\ exit' = exit
        ELSE IF readable /\ disk.state = "ok"
        THEN /\ cfg' = disk.cfg
             /\ ppc' = "menu"
             /\ exit' = exit
        ELSE /\ cfg' = cfg
             /\ ppc' = "exited"
             /\ exit' = handleError("Error initializing config",
                                    Wrap("loading config", <<"read error">>))
    /\ UNCHANGED <<pc, fn, options, selectedIndex, selected, kbOpen, ret,
                   frame, trace, opens, opened, closes, frames, disk, prev>>

\* selectOrAddConnection: the top of the loop, up to the entry of Select
selectOrAddConnectionCall ==
    /\ ppc = "menu" /\ pc = "idle"
    /\ SelectEntry(createConnectionOptions(cfg))
    /\ ppc' = "menuSelect"
    /\ UNCHANGED <<cfg, disk, exit, prev>>

\* selectOrAddConnection: from the return of Select to the end of the
\* iteration; an error goes up through initializeConfig to handleError
selectOrAddConnectionResult ==
    /\ ppc = "menuSelect" /\ pc = "returned"
    /\ Discard
    /\ LET k == Len(cfg.Connections)
           choice == Sscan(ret.str, 0 - 1)
       IN  IF ret.err # NoErr
           THEN /\ exit' = handleError("Error initializing config",
                                Wrap("selecting connection", <<ret.err>>))
                /\ ppc' = "exited"
                /\ cfg' = cfg
           ELSE IF choice = k
           THEN /\ ppc' = "add"
                /\ UNCHANGED <<cfg, exit>>
           ELSE IF k > 0 /\ choice = k + 1
           THEN /\ ppc' = "delete"
                /\ UNCHANGED <<cfg, exit>>
           ELSE IF choice >= 0 /\ choice < k
           THEN /\ cfg' = [cfg EXCEPT
                            !.CurrentConnection = cfg.Connections[choice + 1]]
                /\ ppc' = "connect"
                /\ exit' = exit
           ELSE /\ ppc' = "menu"
                /\ UNCHANGED <<cfg, exit>>
    /\ UNCHANGED <<disk, prev>>

\* variant: the new connection is appended and the current one is kept
addNewConnectionKeepCurrent ==
    /\ ppc = "add"
    /\ Len(cfg.Connections) < MaxConns
    /\ \E conn \in ConnPool, outcome \in SaveOutcomes :
        LET newCfg == Config(Append(cfg.Connections, conn),
                             cfg.CurrentConnection)
        IN  /\ disk' = SaveConfig(newCfg, outcome)
            /\ IF outcome = "ok"
               THEN /\ cfg' = newCfg
                    /\ ppc' = "connect"
               ELSE /\ cfg' = cfg
                    /\ ppc' = "menu"
    /\ UNCHANGED <<pc, fn, options, selectedIndex, selected, kbOpen, ret,
                   frame, trace, opens, opened, closes, frames, exit, prev>>

\* addNewConnection: config.AddNewConnection with the connection typed in
addNewConnection ==
    /\ ppc = "add"
    /\ Len(cfg.Connections) < MaxConns
    /\ \E conn \in ConnPool, outcome \in SaveOutcomes :
        LET newCfg == Config(Append(cfg.Connections, conn), conn)
        IN  /\ disk' = SaveConfig(newCfg, outcome)
            /\ IF outcome = "ok"
               THEN /\ cfg' = newCfg
                    /\ ppc' = "connect"
               ELSE /\ cfg' = cfg
                    /\ ppc' = "menu"
    /\ UNCHANGED <<pc, fn, options, selectedIndex, selected, kbOpen, ret,
                   frame, trace, opens, opened, closes, frames, exit, prev>>

\* deleteConnection: up to the entry of Select
deleteConnectionCall ==
    /\ ppc = "delete" /\ pc = "idle"
    /\ IF Len(cfg.Connections) = 0
       THEN /\ ppc' = "menu"
            /\ UNCHANGED <<pc, fn, options, selectedIndex, selected, kbOpen,
                           ret, frame, trace, opens, opened, closes, frames>>
       ELSE /\ SelectEntry(deleteConnectionOptions(cfg))
            /\ ppc' = "deleteSelect"
    /\ UNCHANGED <<cfg, disk, exit, prev>>

\* deleteConnection: from the return of Select on, and cfg = newCfg in
\* selectOrAddConnection
deleteConnectionResult ==
    /\ ppc = "deleteSelect" /\ pc = "returned"
    /\ Discard
    /\ ppc' = "menu"
    /\ LET k == Len(cfg.Connections)
           choice == Sscan(ret.str, 0 - 1)
       IN  IF ret.err # NoErr \/ choice < 0 \/ choice >= k
           THEN UNCHANGED <<cfg, disk>>
           ELSE LET deletedConn == cfg.Connections[choice + 1]
                    newCfg ==
                        Config(RemoveAt(cfg.Connections, choice),
                               IF cfg.CurrentConnection.Name = deletedConn.Name
                               THEN NoConnection
                               ELSE cfg.CurrentConnection)
                IN  \E outcome \in SaveOutcomes :
                        /\ disk' = SaveConfig(newCfg, outcome)
                        /\ cfg' = newCfg
    /\ UNCHANGED <<exit, prev>>

\* main: database.Connect(cfg.CurrentConnection)
Connect ==
    /\ ppc = "connect"
    /\ \E reachable \in BOOLEAN :
        IF reachable /\ cfg.CurrentConnection.Type \in {"mysql", "postgresql"}
        THEN /\ ppc' = "prompt"
             /\ exit' = exit
        ELSE /\ ppc' = "exited"
             /\ exit' = handleError("Error connecting to database",
                                    <<"connect error">>)
    /\ UNCHANGED <<pc, fn, options, selectedIndex, selected, kbOpen, ret,
                   frame, trace, opens, opened, closes, frames, cfg, disk,
                   prev>>

\* main: cli.RunPrompt until "/exit" or the end of the input
RunPrompt ==
    /\ ppc = "prompt"
    /\ \E input \in {"/exit", "EOF"} :
        IF input = "/exit"
        THEN /\ ppc' = "exited"
             /\ exit' = Exited(0)
        ELSE /\ ppc' = "ask"
             /\ exit' = exit
    /\ UNCHANGED <<pc, fn, options, selectedIndex, selected, kbOpen, ret,
                   frame, trace, opens, opened, closes, frames, cfg, disk,
                   prev>>

\* main: "Do you want to connect to another database? (y/N)"
AskAgain ==
    /\ ppc = "ask"
    /\ \E answer \in {"y", "Y", "n"} :
        IF answer = "y" \/ answer = "Y"
        THEN /\ ppc' = "init"
             /\ exit' = exit
        ELSE /\ ppc' = "exited"
             /\ exit' = Exited(0)
    /\ UNCHANGED <<pc, fn, options, selectedIndex, selected, kbOpen, ret,
                   frame, trace, opens, opened, closes, frames, cfg, disk,
                   prev>>

ConnLists == UNION {[1..k -> ConnPool] : k \in 0..MaxConns}

\* the configuration files the program leaves behind
ConfigFiles ==
    {NoFile} \cup
    {File(Config(conns, cur)) :
        conns \in ConnLists, cur \in ConnPool \cup {NoConnection}}

ProgInit ==
    /\ Fresh
    /\ ppc = "init"
    /\ cfg = EmptyConfig
    /\ disk \in {d \in ConfigFiles :
                    \/ d.cfg.CurrentConnection = NoConnection
                    \/ \E i \in 1..Len(d.cfg.Connections) :
                        d.cfg.Connections[i] = d.cfg.CurrentConnection}
    /\ exit = Running
    /\ prev = NoPrev

ProgNext ==
    \/ initializeConfig
    \/ selectOrAddConnectionCall
    \/ SelectOpen
    \/ SelectDraw
    \/ SelectGetKey
    \/ SelectDeferred
    \/ selectOrAddConnectionResult
    \/ addNewConnection
    \/ deleteConnectionCall
    \/ deleteConnectionResult
    \/ Connect
    \/ RunPrompt
    \/ AskAgain

ProgSpec == ProgInit /\ [][ProgNext]_vars

\* the dropdown functions called one after the other
SeqInit ==
    /\ Fresh
    /\ ppc = "sequence"
    /\ cfg = EmptyConfig
    /\ disk = NoFile
    /\ exit = Running
    /\ prev = NoPrev

SeqNext ==
    \/ SelectCall
    \/ SelectOpen
    \/ SelectDraw
    \/ SelectGetKey
    \/ SelectDeferred
    \/ MultiSelectCall
    \/ MultiSelectOpen
    \/ MultiSelectDraw
    \/ MultiSelectGetKey
    \/ MultiSelectDeferred
    \/ ReturnNoting

SeqSpec == SeqInit /\ [][SeqNext]_vars

\* the dropdown functions as sequential code: a frame is printed without
\* blocking, the deferred Close runs when the function returns, and GetKey
\* returns whenever the key stream has a key for it
LiveInit ==
    /\ Fresh
    /\ ppc = "live"
    /\ cfg = EmptyConfig
    /\ disk = NoFile
    /\ exit = Running
    /\ prev = NoPrev

LiveNext ==
    \/ SelectCall
    \/ SelectOpen
    \/ SelectDraw
    \/ SelectGetKey
    \/ SelectDeferred
    \/ MultiSelectCall
    \/ MultiSelectOpen
    \/ MultiSelectDraw
    \/ MultiSelectGetKey
    \/ MultiSelectDeferred
    \/ Return

LiveSpec ==
    /\ LiveInit
    /\ [][LiveNext]_vars
    /\ WF_vars(SelectDraw)
    /\ WF_vars(SelectDeferred)
    /\ WF_vars(MultiSelectDraw)
    /\ WF_vars(MultiSelectDeferred)

\* ============================================================ properties
n == len(options)

Last(s) == s[Len(s)]

\* the invocation has reached a return statement
Ended == pc \in {"deferred", "returned"}

\* the cursor and the selection left by the i-th key of the invocation
CursorAfter(i) == IF i < Len(trace) THEN trace[i + 1].cursor ELSE selectedIndex
SelectedAfter(i) == IF i < Len(trace) THEN trace[i + 1].selected ELSE selected

EventsOf == [i \in 1..Len(trace) |-> trace[i].ev]

QuitEvents == {"Esc", "q", "Q"}

None(e) == IF fn = "Select" THEN StrRet("", e) ELSE NilRet(e)

\* C1: an invocation whose keyboard.Open() succeeded has called
\* keyboard.Close() exactly once when it returns (after Enter, after Escape
\* or q/Q, after a failed key read), never more than once, and reads no key
\* after the close.
C1_CloseOnEveryExit ==
    /\ [](closes <= 1)
    /\ [](pc = "returned" /\ opened => closes = 1 /\ ~kbOpen)
    /\ [][closes >= 1 => (trace' = trace \/ pc' = "idle")]_vars

C1_Witness ==
    /\ pc = "returned" /\ opened /\ closes = 1
    /\ ret.err = ErrRead
    /\ Len(trace) >= 2

\* C2: Escape, 'q' or 'Q' met in any navigating state of Select or
\* MultiSelect ends the invocation with the cancelled error and no value.
C2_QuitCancels ==
    \A i \in 1..Len(trace) :
        trace[i].ev \in QuitEvents =>
            /\ i = Len(trace)
            /\ Ended
            /\ ret = None(ErrCancelled)

C2_Witness ==
    /\ fn = "MultiSelect" /\ pc = "returned"
    /\ Len(trace) >= 1
    /\ Last(trace).ev = "Q"
    /\ Last(trace).cursor # 0
    /\ \E i \in DOMAIN selected : Last(trace).selected[i]
    /\ ret = NilRet(ErrCancelled)

\* C3: in Select, Enter met at cursor c returns exactly options[c].Value with
\* a nil error; Down, Down, Enter and Up, Enter on the three options
\* "1", "2", "3" both return "3".
C3_EnterReturnsCursorValue ==
    fn = "Select" =>
        /\ \A i \in 1..Len(trace) :
            trace[i].ev = "Enter" =>
                /\ i = Len(trace)
                /\ Ended
                /\ trace[i].cursor \in 0..(n - 1)
                /\ ret = StrRet(options[trace[i].cursor].Value, NoErr)
        /\ (options = Ascending(3)
            /\ EventsOf = <<"ArrowDown", "ArrowDown", "Enter">>)
                => ret.str = "3"
        /\ (options = Ascending(3) /\ EventsOf = <<"ArrowUp", "Enter">>)
                => ret.str = "3"

C3_Witness ==
    /\ fn = "Select" /\ pc = "returned"
    /\ options = Descending(3)
    /\ EventsOf = <<"ArrowUp", "Enter">>
    /\ ret = StrRet("1", NoErr)

\* C4: in Select and MultiSelect an Up key moves the cursor from c to
\* (c - 1 + n) mod n and a Down key to (c + 1) mod n: Up from 0 gives n - 1,
\* Down from n - 1 gives 0, and with one option both leave the cursor at 0.
C4_UpDownWrap ==
    \A i \in 1..Len(trace) :
        LET c == trace[i].cursor
        IN  /\ trace[i].ev = "ArrowUp" =>
                /\ CursorAfter(i) = (c - 1 + n) % n
                /\ c = 0 => CursorAfter(i) = n - 1
                /\ c > 0 => CursorAfter(i) = c - 1
            /\ trace[i].ev = "ArrowDown" =>
                /\ CursorAfter(i) = (c + 1) % n
                /\ c = n - 1 => CursorAfter(i) = 0
                /\ c < n - 1 => CursorAfter(i) = c + 1
            /\ (n = 1 /\ trace[i].ev \in {"ArrowUp", "ArrowDown"}) =>
                CursorAfter(i) = 0

C4_Witness ==
    /\ n = 3
    /\ \E i \in 1..Len(trace) :
        trace[i].ev = "ArrowUp" /\ trace[i].cursor = 0 /\ CursorAfter(i) = 2
    /\ \E i \in 1..Len(trace) :
        trace[i].ev = "ArrowDown" /\ trace[i].cursor = 2 /\ CursorAfter(i) = 0

\* C5: n consecutive Down keys, and n consecutive Up keys, bring the cursor
\* back to where it was before them, from every start cursor.
C5_FullCycle ==
    \A i \in 1..Len(trace) :
        \A k \in {"ArrowDown", "ArrowUp"} :
            (/\ i + n - 1 <= Len(trace)
             /\ \A j \in i..(i + n - 1) : trace[j].ev = k)
                => CursorAfter(i + n - 1) = trace[i].cursor

C5_Witness ==
    /\ n = 3 /\ fn = "MultiSelect"
    /\ Len(trace) >= 4
    /\ trace[2].cursor = 1
    /\ \A j \in 2..4 : trace[j].ev = "ArrowDown"
    /\ CursorAfter(4) = 1

\* the k-th smallest index of a set of indices
KthIndex(S, k) == CHOOSE i \in S : Cardinality({j \in S : j < i}) = k - 1

\* the values of the indices of S in ascending list position
ValuesInListOrder(S) ==
    [k \in 1..Cardinality(S) |-> options[KthIndex(S, k)].Value]

Chosen(sel) == {i \in DOMAIN sel : sel[i]}

\* C6: in MultiSelect, Enter returns with a nil error exactly the values of
\* the indices selected at that moment, in ascending list position, whatever
\* the toggle order and the cursor: toggling index 2 then index 0 returns
\* [options[0].Value, options[2].Value], and Space, Down, Down, Space, Enter
\* on the options "1", "2", "3" returns ["1", "3"].
C6_EnterReturnsSelectedInListOrder ==
    fn = "MultiSelect" =>
        /\ \A i \in 1..Len(trace) :
            trace[i].ev = "Enter" =>
                /\ i = Len(trace)
                /\ Ended
                /\ ret = ListRet(ValuesInListOrder(Chosen(trace[i].selected)),
                                 NoErr)
        /\ (n = 3 /\ EventsOf =
                <<"ArrowUp", "Space", "ArrowDown", "Space", "Enter">>)
                => ret.list = <<options[0].Value, options[2].Value>>
        /\ (options = Ascending(3) /\ EventsOf =
                <<"Space", "ArrowDown", "ArrowDown", "Space", "Enter">>)
                => ret.list = <<"1", "3">>

C6_Witness ==
    /\ fn = "MultiSelect" /\ pc = "returned"
    /\ options = Descending(3)
    /\ EventsOf = <<"ArrowUp", "Space", "ArrowDown", "Space", "Enter">>
    /\ ret = ListRet(<<"3", "1">>, NoErr)

\* C7: in MultiSelect, two Space keys met at the same cursor, with no other
\* Space between them, leave selected as it was before the first of them.
C7_DoubleToggleRestores ==
    fn = "MultiSelect" =>
        \A i \in 1..Len(trace) : \A j \in (i + 1)..Len(trace) :
            (/\ trace[i].ev = "Space"
             /\ trace[j].ev = "Space"
             /\ trace[i].cursor = trace[j].cursor
             /\ \A k \in (i + 1)..(j - 1) : trace[k].ev # "Space")
                => SelectedAfter(j) = trace[i].selected

C7_Witness ==
    /\ fn = "MultiSelect" /\ n = 2
    /\ EventsOf = <<"ArrowDown", "Space", "ArrowDown", "ArrowUp", "Space">>
    /\ trace[5].cursor = 1
    /\ selected = [i \in 0..1 |-> FALSE]

\* C8: in MultiSelect, Enter met while nothing is selected returns the empty
\* sequence with a nil error, which is not the cancelled outcome.
C8_EnterOnEmptySelection ==
    (/\ fn = "MultiSelect"
     /\ Len(trace) >= 1
     /\ Last(trace).ev = "Enter"
     /\ Chosen(Last(trace).selected) = {})
        => /\ Ended
           /\ ret = ListRet(<<>>, NoErr)
           /\ ret # NilRet(ErrCancelled)

C8_Witness ==
    /\ fn = "MultiSelect" /\ pc = "returned"
    /\ EventsOf = <<"ArrowDown", "Space", "Space", "Enter">>
    /\ ret = ListRet(<<>>, NoErr)

\* C9: Select and MultiSelect called with no option return the
\* "no options provided" error and no value, with no keyboard.Open() call, no
\* frame and no key read.
C9_EmptyOptions ==
    (fn # "none" /\ n = 0) =>
        /\ pc = "returned"
        /\ ret = None(ErrNoOptions)
        /\ opens = 0
        /\ ~opened
        /\ frames = 0
        /\ trace = <<>>

C9_Witness ==
    /\ fn = "Select" /\ n = 0
    /\ pc = "returned"
    /\ ret = StrRet("", ErrNoOptions)

\* C10: when keyboard.Open() fails, Select and MultiSelect return its error
\* and no value at once: no frame is drawn and no key is read.
C10_OpenFailure ==
    (opens >= 1 /\ ~opened) =>
        /\ pc = "returned"
        /\ ret = None(ErrOpen)
        /\ frames = 0
        /\ trace = <<>>

C10_Witness ==
    /\ fn = "MultiSelect" /\ n = 2
    /\ opens = 1 /\ ~opened
    /\ pc = "returned"
    /\ ret = NilRet(ErrOpen)

\* C11: a failed key read ends the loop at once: it is the last read of the
\* invocation, no frame follows it, the error is returned with no value
\* whatever the cursor and the selection, and the input source is released
\* when the call returns.
C11_ReadFailureAborts ==
    \A i \in 1..Len(trace) :
        trace[i].ev = "ReadErr" =>
            /\ i = Len(trace)
            /\ Ended
            /\ ret = None(ErrRead)
            /\ frames = Len(trace)
            /\ pc = "returned" => (closes = 1 /\ ~kbOpen)

C11_Witness ==
    /\ fn = "MultiSelect" /\ pc = "returned"
    /\ EventsOf = <<"ArrowDown", "Space", "ReadErr">>
    /\ selectedIndex = 1 /\ selected[1]
    /\ ret = NilRet(ErrRead)
    /\ frames = 3 /\ closes = 1 /\ ~kbOpen

\* the invocation carries a value: a non-empty string or a non-nil slice
HasValue == ret.str # "" \/ ~ret.isNil

\* C12: Select and MultiSelect return a nil error only as the effect of an
\* Enter key; a return reached any other way (Escape, q/Q, failed read,
\* failed open, no options) carries an error and no value.
C12_ValueOnlyByEnter ==
    (fn # "none" /\ Ended) =>
        IF Len(trace) >= 1 /\ Last(trace).ev = "Enter"
        THEN ret.err = NoErr
        ELSE ret.err \notin {NoErr, "none"} /\ ~HasValue

C12_Witness ==
    /\ fn = "Select" /\ pc = "returned"
    /\ n = 3
    /\ EventsOf = <<"ArrowDown", "Esc">>
    /\ ret.err = ErrCancelled /\ ~HasValue

\* the indicator of a row without its case
Lower(p) == IF p = "[X]" THEN "[x]" ELSE p

\* C13: in every MultiSelect frame each row's indicator tells whether the
\* row is selected, and the active row differs from every non-active row of
\* the same selection status, checked or unchecked.
C13_ActiveRowMarked ==
    (fn = "MultiSelect" /\ pc = "read") =>
        /\ \A i \in DOMAIN frame :
            Lower(frame[i].prefix) = IF selected[i] THEN "[x]" ELSE "[ ]"
        /\ \A j \in DOMAIN frame :
            (j # selectedIndex /\ selected[j] = selected[selectedIndex])
                => frame[j].prefix # frame[selectedIndex].prefix

\* the loop of the invocation is running
InLoop == pc \in {"draw", "read"}

\* C17: in every state of the loop of Select and MultiSelect, and at every
\* key read, the cursor is an index in 0..n-1, and MultiSelect's selected has
\* exactly the indices 0..n-1.
C17_CursorInRange ==
    (fn # "none" /\ (InLoop \/ pc = "deferred")) =>
        /\ n >= 1
        /\ selectedIndex \in 0..(n - 1)
        /\ \A i \in 1..Len(trace) : trace[i].cursor \in 0..(n - 1)
        /\ fn = "MultiSelect" =>
            /\ DOMAIN selected = 0..(n - 1)
            /\ Chosen(selected) \subseteq 0..(n - 1)

C17_Witness ==
    /\ fn = "MultiSelect" /\ pc = "read" /\ n = 3
    /\ EventsOf = <<"ArrowUp", "Space", "ArrowDown">>
    /\ trace[2].cursor = 2
    /\ selectedIndex = 0
    /\ Chosen(selected) = {2}

\* C18: in MultiSelect, Up and Down leave selected as it was, and Space
\* flips the membership of the cursor index only, leaving the cursor and the
\* membership of every other index as they were.
C18_MultiSelectFrame ==
    fn = "MultiSelect" =>
        \A i \in 1..Len(trace) :
            LET c == trace[i].cursor
                before == trace[i].selected
                after == SelectedAfter(i)
            IN  /\ trace[i].ev \in {"ArrowUp", "ArrowDown"} => after = before
                /\ trace[i].ev = "Space" =>
                    /\ CursorAfter(i) = c
                    /\ DOMAIN after = DOMAIN before
                    /\ after[c] = ~before[c]
                    /\ \A k \in DOMAIN before \ {c} : after[k] = before[k]

C18_Witness ==
    /\ fn = "MultiSelect" /\ n = 3
    /\ EventsOf = <<"Space", "ArrowDown", "Space", "ArrowUp">>
    /\ Chosen(selected) = {0, 1}
    /\ selectedIndex = 0

\* C19: in Select a key that is none of Up, Down, Enter, Escape, 'q', 'Q'
\* (Space, another character, another key) leaves the cursor where it was and
\* the loop running; in MultiSelect the same holds for a key that is none of
\* those nor Space, with selected unchanged too.
C19_OtherKeysNoOp ==
    \A i \in 1..Len(trace) :
        (\/ fn = "Select" /\ trace[i].ev \in {"Space", "Tab", "x"}
         \/ fn = "MultiSelect" /\ trace[i].ev \in {"Tab", "x"})
            => /\ CursorAfter(i) = trace[i].cursor
               /\ SelectedAfter(i) = trace[i].selected
               /\ i = Len(trace) => (InLoop /\ ret = NoRet)

C19_Witness ==
    /\ fn = "Select" /\ n = 3 /\ pc = "read"
    /\ EventsOf = <<"ArrowDown", "Space", "x", "Tab">>
    /\ selectedIndex = 1

\* C20: within an invocation frames and key reads alternate, the frame
\* first: each key read follows exactly one frame printed after the previous
\* key, that frame is the picture of the cursor and selection the previous
\* keys left, and no frame follows a terminal key or a failed read.
C20_DrawReadAlternate ==
    /\ (fn = "none" \/ pc \in {"open", "draw"} \/ Ended)
            => frames = Len(trace)
    /\ pc = "read" =>
        /\ frames = Len(trace) + 1
        /\ fn = "Select" => frame = SelectFrame(options, selectedIndex)
        /\ fn = "MultiSelect" =>
            frame = MultiSelectFrame(options, selectedIndex, selected)

C20_Witness ==
    /\ fn = "Select" /\ pc = "returned" /\ n = 2
    /\ EventsOf = <<"ArrowDown", "Enter">>
    /\ frames = 2
    /\ frame[1].prefix = "> " /\ frame[0].prefix = "  "

\* C16: every invocation starts with the cursor on row 0 and, in
\* MultiSelect, with nothing selected, however the invocation before it
\* ended.
C16_FreshStart ==
    (fn # "none" /\ trace = <<>> /\ pc \in {"open", "draw", "read"}) =>
        /\ selectedIndex = 0
        /\ fn = "MultiSelect" => selected = [i \in 0..(n - 1) |-> FALSE]

C16_Witness ==
    /\ prev.any /\ prev.moved /\ prev.chosen /\ prev.ok
    /\ fn = "MultiSelect" /\ pc = "read" /\ n = 3
    /\ trace = <<>>
    /\ selectedIndex = 0
    /\ Chosen(selected) = {}

Range(s) == {s[i] : i \in 1..Len(s)}

\* C14: the program never ends with a failure exit because the user
\* cancelled a selection with Escape or q/Q.
C14_CancelNeverAborts ==
    exit.code = 1 => ErrCancelled \notin Range(exit.err)

\* C15: at most one selection holds the input source at any time: it is held
\* only inside the running invocation that opened it, and each invocation
\* (the delete selection after the menu selection included) reaches its
\* keyboard.Open() with the source released.
C15_OneHolder ==
    /\ kbOpen =>
        /\ ppc \in {"menuSelect", "deleteSelect"}
        /\ pc \in {"draw", "read", "deferred"}
        /\ opened /\ opens = 1 /\ closes = 0
    /\ pc \in {"idle", "open", "returned"} => ~kbOpen

C15_Witness ==
    /\ ppc = "deleteSelect" /\ pc = "read"
    /\ kbOpen /\ opens = 1 /\ closes = 0
    /\ Len(cfg.Connections) = 2
    /\ Len(trace) = 1
\* the events that end the loop
TerminalEvents == {"Enter", "Esc", "q", "Q", "ReadErr"}

\* the key stream has delivered a terminal event to the running invocation
Delivered == Len(trace) > 0 /\ Last(trace).ev \in TerminalEvents

\* C21: an invocation that has opened the input source ends at the first
\* event that is Enter, Escape, 'q'/'Q' or a failed read: no key is consumed
\* after it, no return statement is reached before it, every printed frame
\* is followed by a wait for a key, and once such an event is delivered the
\* invocation returns with the input source released.
C21_EndsAtFirstTerminalEvent ==
    /\ [](\A i \in 1..(Len(trace) - 1) : trace[i].ev \notin TerminalEvents)
    /\ [](Delivered => Ended)
    /\ [](Ended /\ opened => Delivered)
    /\ [][Ended => (trace' = trace \/ pc' = "idle")]_vars
    /\ (pc = "draw") ~> (pc = "read")
    /\ Delivered ~> (pc = "returned" /\ ~kbOpen)

C21_Witness ==
    /\ fn = "MultiSelect" /\ opened
    /\ pc = "returned" /\ ~kbOpen
    /\ Len(trace) = MaxLiveKeys
    /\ Last(trace).ev = "Q"
    /\ \E i \in DOMAIN selected : selected[i]
\* C22: keyboard.Close() is called only in an invocation whose
\* keyboard.Open() succeeded, and after it: never when the options were
\* empty (Open not attempted) and never when Open failed.
C22_CloseOnlyAfterOpen ==
    /\ [](closes >= 1 => opened /\ opens = 1)
    /\ [](pc = "returned" /\ ~opened => closes = 0)
    /\ [][closes' > closes => opened /\ kbOpen]_vars

C22_Witness ==
    /\ fn = "Select" /\ n = 3
    /\ pc = "returned"
    /\ opens = 1 /\ ~opened
    /\ closes = 0 /\ ~kbOpen
\* C23: every option list the program passes to Select has at least one
\* row, with no connection configured and after deletions too, so no call of
\* the program returns the "no options provided" error and the program never
\* ends on it.
C23_ProgramOptionsNonEmpty ==
    /\ ppc \in {"menuSelect", "deleteSelect"} =>
            /\ n >= 1
            /\ ret.err # ErrNoOptions
    /\ ppc = "menuSelect" => n = len(createConnectionOptions(cfg))
    /\ ppc = "deleteSelect" => n = Len(cfg.Connections)
    /\ ErrNoOptions \notin Range(exit.err)

\* the menu drawn for a configuration whose only connection was deleted
C23_Witness ==
    /\ ppc = "menuSelect" /\ pc = "read"
    /\ cfg.Connections = <<>>
    /\ n = 1 /\ frame[0].label = "Add new connection"
    /\ disk.state = "ok" /\ Len(disk.cfg.Connections) = 1
\* the configuration selectOrAddConnection returned is in use
Returned == ppc \in {"connect", "prompt", "ask"}

\* C24: the configuration selectOrAddConnection returns without error has a
\* CurrentConnection that is an element of its Connections: the connection
\* at the confirmed row of the menu, or the connection just added, whatever
\* selections, additions, deletions and failed attempts came before.
C24_CurrentIsListed ==
    /\ [](Returned => cfg.CurrentConnection \in Range(cfg.Connections))
    /\ [][ppc' = "connect" =>
            IF ppc = "add"
            THEN /\ Len(cfg'.Connections) = Len(cfg.Connections) + 1
                 /\ cfg'.CurrentConnection = Last(cfg'.Connections)
            ELSE /\ cfg'.Connections = cfg.Connections
                 /\ cfg'.CurrentConnection =
                        cfg.Connections[selectedIndex + 1]]_vars

\* a connection confirmed after a deletion whose save failed
C24_Witness ==
    /\ ppc = "connect"
    /\ disk.state = "ok"
    /\ Len(cfg.Connections) < Len(disk.cfg.Connections)
    /\ cfg.CurrentConnection = cfg.Connections[1]
\* C25: when deleteConnection returns an error (the selection was
\* cancelled, the key read failed, or the configuration could not be saved,
\* so that the file does not hold the configuration in memory), the menu
\* continues with the configuration it had before the delete attempt.
C25_DeleteErrorKeepsConfig ==
    [][(/\ ppc = "deleteSelect" /\ ppc' = "menu"
        /\ (ret.err # NoErr \/ disk' # File(cfg')))
       => cfg' = cfg]_vars

====
